---- MODULE Spec2Model ----
(***************************************************************************)
(* The session recorder of pi/extensions/recorder/recorder.ts: the module  *)
(* state (db handle, correlator state), the SQLite store (five tables) and *)
(* one action per event handler registered with pi.on(...).                *)
(*                                                                         *)
(* SQL NULL / JS null / JS undefined are NULL for integer-valued places    *)
(* and NONE for string-valued places.  Cost (REAL) is a scaled integer.    *)
(* Text is a record [len, marker]: the number of original characters kept  *)
(* and the sequence of strings appended after them.                        *)
(***************************************************************************)
EXTENDS Integers, Sequences, FiniteSets, TLC

NULL == 0 - 1
NONE == "null"

\* ---- bounds of the model ----
MaxEvents == 4
MaxTurnEvents == 5
MaxScenarioEvents == 7
MaxTextEvents == 3
MaxRowEvents == 5
MaxSessionEvents == 6
SessionOrder == <<"s1", "s2">>
TurnIndexes == {0, 1}
ToolCallOrder == <<"t1", "t2">>
ToolCallIds == {ToolCallOrder[i] : i \in 1..Len(ToolCallOrder)}

\* ---- program constants ----
MAX_RESULT_SIZE == 51200
TRUNCATION_SUFFIX == "... [truncated at 50KB]"

\* ---- values the host supplies ----
TextItem(n) == [type |-> "text", len |-> n]
ImageItem == [type |-> "image", len |-> 0]
Content(items) == [present |-> TRUE, items |-> items]
NoContent == [present |-> FALSE, items |-> <<>>]
Usage(i, o, c) == [present |-> TRUE, input |-> i, output |-> o, cost |-> c]
NoUsage == [present |-> FALSE, input |-> 0, output |-> 0, cost |-> 0]

\* ExtensionContext: sessionManager.getSessionFile(), cwd, model
Contexts ==
  { [sessionFile |-> "f1", cwd |-> "d1", provider |-> "p1", model |-> "m1",
     hasUI |-> TRUE],
    [sessionFile |-> "f2", cwd |-> "d2", provider |-> NONE, model |-> NONE,
     hasUI |-> TRUE] }

\* TurnEndEvent.message
TurnEndMessages ==
  { [present |-> TRUE, role |-> "assistant", usage |-> Usage(10, 5, 10),
     provider |-> "p1", model |-> "m1", stopReason |-> "stop",
     content |-> Content(<<TextItem(1)>>)],
    [present |-> TRUE, role |-> "assistant", usage |-> Usage(3, 2, 2),
     provider |-> "p1", model |-> "m1", stopReason |-> "toolUse",
     content |-> NoContent],
    [present |-> TRUE, role |-> "assistant", usage |-> NoUsage,
     provider |-> NONE, model |-> NONE, stopReason |-> NONE,
     content |-> Content(<<ImageItem>>)],
    [present |-> TRUE, role |-> "toolResult", usage |-> Usage(3, 2, 2),
     provider |-> "p1", model |-> "m1", stopReason |-> "stop",
     content |-> Content(<<TextItem(1)>>)],
    [present |-> FALSE, role |-> NONE, usage |-> NoUsage,
     provider |-> NONE, model |-> NONE, stopReason |-> NONE,
     content |-> NoContent] }

\* TurnEndEvent.message, with an assistant message of either kind that
\* carries text
WiderTurnEndMessages ==
  TurnEndMessages \cup
    { [present |-> TRUE, role |-> "assistant", usage |-> NoUsage,
       provider |-> "p1", model |-> "m1", stopReason |-> "stop",
       content |-> Content(<<TextItem(1), TextItem(1)>>)] }

\* InputEvent.text (absent: a malformed payload)
InputTexts == { [present |-> TRUE, len |-> 1], [present |-> FALSE, len |-> 0] }

\* ToolCallEvent.input (absent: JSON.stringify(undefined) is undefined)
ToolInputs == { [present |-> TRUE, len |-> 2], [present |-> FALSE, len |-> 0] }

\* ToolResultEvent.content
ToolResultContents == { Content(<<TextItem(1)>>), NoContent }

\* lengths of free text around the ceiling, and 60 KiB; all texts are taken to
\* be prefixes of one string, so texts of equal length are equal
TextSizes == {1, MAX_RESULT_SIZE, MAX_RESULT_SIZE + 1, 60 * 1024}

\* content arrays: one text item of each size, and two text items around an
\* image whose join is one over the ceiling
TextContents ==
  {Content(<<TextItem(n)>>) : n \in TextSizes}
    \cup {Content(<<TextItem(MAX_RESULT_SIZE - 1), ImageItem, TextItem(1)>>)}

\* ModelSelectEvent
ModelSelectEvents ==
  { [hasModel |-> TRUE, provider |-> "p1", model |-> "m1", hasPrevious |-> FALSE,
     prevProvider |-> NONE, prevModel |-> NONE, source |-> "set"],
    [hasModel |-> TRUE, provider |-> "p2", model |-> "m2", hasPrevious |-> TRUE,
     prevProvider |-> "p1", prevModel |-> "m1", source |-> "restore"],
    [hasModel |-> FALSE, provider |-> NONE, model |-> NONE, hasPrevious |-> FALSE,
     prevProvider |-> NONE, prevModel |-> NONE, source |-> "cycle"] }

\* Where initDatabase can throw
InitFailures == {"none", "load", "open", "journal", "schema"}

VARIABLES
  db,               \* the module's db handle: [open, foreign_keys]
  moduleAvailable,  \* better-sqlite3 import has not failed
  DatabaseCtor,     \* the constructor is cached
  state,            \* the correlator
  schema,           \* the store file holds the tables of SCHEMA
  sessions,         \* table sessions: id -> row
  turns,            \* table turns: sequence of rows, id = position (AUTOINCREMENT)
  tool_calls,       \* table tool_calls: id -> row
  messages,         \* table messages: sequence of rows
  model_changes,    \* table model_changes: sequence of rows
  txn,              \* the open commitTurn transaction, if any
  now,              \* Date.now()
  status,           \* ctx.ui.setStatus: "unset", "active", "disabled"
  nEvents,          \* events delivered so far
  last,             \* history: the last event delivered and how its handler ended
  hist              \* history: bookkeeping of the active session

store == <<schema, sessions, turns, tool_calls, messages, model_changes>>
vars == <<db, moduleAvailable, DatabaseCtor, state, store, txn, now, status,
          nEvents, last, hist>>


\* ---- helpers of recorder.ts ----
NoText == [len |-> NULL, marker |-> <<>>]

RECURSIVE JoinedLength(_)
\* texts.join("\n").length for the items of a content array
JoinedLength(items) ==
  IF items = <<>> THEN 0
  ELSE LET rest == Tail(items)
           restTexts == SelectSeq(rest, LAMBDA it : it.type = "text")
       IN IF Head(items).type = "text"
            THEN Head(items).len + (IF restTexts = <<>> THEN 0 ELSE 1 + JoinedLength(rest))
            ELSE JoinedLength(rest)

extractTextContent(content) ==
  LET n == JoinedLength(content.items)
  IN IF n > MAX_RESULT_SIZE
       THEN [len |-> MAX_RESULT_SIZE, marker |-> <<"\n", TRUNCATION_SUFFIX>>]
       ELSE [len |-> n, marker |-> <<>>]

truncate(text) ==
  IF text.len > MAX_RESULT_SIZE
    THEN [len |-> MAX_RESULT_SIZE, marker |-> <<TRUNCATION_SUFFIX>>]
    ELSE [len |-> text.len, marker |-> <<>>]

\* JS truthiness of a string: the empty string is falsy
Truthy(text) == text.len > 0 \/ text.marker # <<>>

\* ---- the store ----
Closed == [open |-> FALSE, foreign_keys |-> FALSE]
NoTxn == [active |-> FALSE]
EmptyMap == [x \in {} |-> 0]

\* (mutant) the session reference is not checked
SessionFK_Unchecked(h, sid) == TRUE

\* FOREIGN KEY (session_id) REFERENCES sessions(id), enforced when the
\* connection ran PRAGMA foreign_keys = ON
SessionFK(h, sid) == h.foreign_keys => sid \in DOMAIN sessions

\* FOREIGN KEY (turn_id) REFERENCES turns(id)
TurnFK(h, tid) == h.foreign_keys => (tid = NULL \/ tid \in 1..Len(turns))

\* the position of the turns row with this UNIQUE key, 0 if there is none
TurnRowOf(ts, sid, idx, iter) ==
  LET hits == {i \in 1..Len(ts) : /\ ts[i].session_id = sid
                                  /\ ts[i].turn_index = idx
                                  /\ ts[i].iteration_number = iter}
  IN IF hits = {} THEN 0 ELSE CHOOSE i \in hits : TRUE

NewSessionRow(ctx, t) ==
  [session_file |-> ctx.sessionFile, cwd |-> ctx.cwd, started_at |-> t,
   ended_at |-> NULL, model_provider |-> ctx.provider, model_id |-> ctx.model,
   total_input_tokens |-> 0, total_output_tokens |-> 0, total_cost |-> 0]

\* (mutant) INSERT OR REPLACE: the conflicting row is replaced by a new one
ConflictSessionRow_Replace(row, ctx, t) ==
  [session_file |-> ctx.sessionFile, cwd |-> ctx.cwd, started_at |-> t,
   ended_at |-> NULL, model_provider |-> ctx.provider, model_id |-> ctx.model,
   total_input_tokens |-> 0, total_output_tokens |-> 0, total_cost |-> 0]

\* ON CONFLICT(id) DO UPDATE SET session_file, model_provider, model_id
ConflictSessionRow(row, ctx, t) ==
  [row EXCEPT !.session_file = ctx.sessionFile,
              !.model_provider = ctx.provider,
              !.model_id = ctx.model]

\* INSERT INTO sessions ... ON CONFLICT(id) DO UPDATE ...
UpsertSession(ss, sid, ctx, t) ==
  [x \in DOMAIN ss \cup {sid} |->
     IF x # sid THEN ss[x]
     ELSE IF sid \in DOMAIN ss THEN ConflictSessionRow(ss[sid], ctx, t)
     ELSE NewSessionRow(ctx, t)]

NewTurnRow(sid, idx, iter, t) ==
  [session_id |-> sid, turn_index |-> idx, iteration_number |-> iter,
   started_at |-> t, ended_at |-> NULL, duration_ms |-> NULL,
   model_provider |-> NONE, model_id |-> NONE,
   input_tokens |-> 0, output_tokens |-> 0, cost |-> 0, stop_reason |-> NONE]

\* (mutant) the conflict clause refreshes started_at only
ConflictTurnRow_StartOnly(row, t) == [row EXCEPT !.started_at = t]

\* ON CONFLICT(session_id, turn_index, iteration_number) DO UPDATE SET ...
ConflictTurnRow(row, t) ==
  [row EXCEPT !.started_at = t, !.ended_at = NULL, !.duration_ms = NULL,
              !.model_provider = NONE, !.model_id = NONE,
              !.input_tokens = 0, !.output_tokens = 0, !.cost = 0,
              !.stop_reason = NONE]

\* INSERT INTO turns ... ON CONFLICT ... DO UPDATE ... RETURNING id
UpsertTurn(ts, sid, idx, iter, t) ==
  LET i == TurnRowOf(ts, sid, idx, iter)
  IN IF i = 0 THEN Append(ts, NewTurnRow(sid, idx, iter, t))
     ELSE [ts EXCEPT ![i] = ConflictTurnRow(ts[i], t)]

ReturningId(ts, sid, idx, iter) ==
  LET i == TurnRowOf(ts, sid, idx, iter)
  IN IF i = 0 THEN Len(ts) + 1 ELSE i


\* ---- initial state: module load, store file not yet created ----
InitState ==
  [sessionId |-> NONE, currentTurnId |-> NULL, currentTurnStartedAt |-> NULL,
   currentTurnIndex |-> NULL, currentIteration |-> 0, toolCallStarts |-> EmptyMap]

InitHist ==
  [initFailed |-> FALSE, fresh |-> FALSE, clean |-> FALSE, mono |-> FALSE,
   open |-> FALSE, nStarts |-> 0, sumIn |-> 0, sumOut |-> 0, sumCost |-> 0,
   tsLog |-> <<>>, counted |-> {}, failedStmt |-> 0, pending |-> EmptyMap,
   applied |-> 0]

\* ev: the event; threw: an error escaped the handler; noop: the handler
\* returned at its guard; hit: its statement changed a row (for an upsert: met
\* an existing row); failed: a statement it ran failed; id: the tool-call id
\* of the event, or the session id a session_start assigned; size: the length of the free text the event carried;
\* kind: what the message of a turn_end was
Outcome(ev, threw, noop, hit) ==
  [ev |-> ev, threw |-> threw, noop |-> noop, hit |-> hit, failed |-> FALSE,
   id |-> NONE, size |-> NULL, kind |-> NONE, arg |-> NONE]

Init ==
  /\ db = Closed
  /\ moduleAvailable = TRUE
  /\ DatabaseCtor = FALSE
  /\ state = InitState
  /\ schema = FALSE
  /\ sessions = EmptyMap
  /\ turns = <<>>
  /\ tool_calls = EmptyMap
  /\ messages = <<>>
  /\ model_changes = <<>>
  /\ txn = NoTxn
  /\ now = 0
  /\ status = "unset"
  /\ nEvents = 0
  /\ last = Outcome("none", FALSE, FALSE, FALSE)
  /\ hist = InitHist

\* (mutant) the guard looks at the handle only
Disabled_HandleOnly == ~db.open

\* (mutant) the handlers have no guard
Disabled_NoGuard == FALSE

\* the guard every handler but session_start begins with
Disabled == ~db.open \/ state.sessionId = NONE

\* the host delivers one event at time t; no handler runs inside commitTurn
Delivered(t) ==
  /\ ~txn.active
  /\ nEvents' = nEvents + 1
  /\ now' = t

\* a handler that returns at its guard
Ignored(ev) ==
  /\ last' = Outcome(ev, FALSE, TRUE, FALSE)
  /\ UNCHANGED <<db, moduleAvailable, DatabaseCtor, state, store, txn, status, hist>>

\* a statement run on the handle fails: a disk error (fail), a missing table
StatementFails(fail) == fail \/ ~schema

\* ---- initDatabase / loadBetterSqlite3 ----
\* initFail names the call that throws: the import ("load"), mkdirSync or
\* new Database ("open"), a pragma ("journal") or db.exec(SCHEMA) ("schema").
\* db is assigned before the pragmas run, so a later throw leaves it open.
\* The SQLite bundled with better-sqlite3 is built with
\* SQLITE_DEFAULT_FOREIGN_KEYS=1: a connection enforces foreign keys from the
\* moment it is opened, and the pragma of line 525 restates that.
InitResult(threw, h, avail, ctor, sch) ==
  [threw |-> threw, db |-> h, moduleAvailable |-> avail, DatabaseCtor |-> ctor,
   schema |-> sch]

initDatabase(initFail) ==
  IF db.open
    THEN InitResult(FALSE, db, moduleAvailable, DatabaseCtor, schema)
  ELSE IF ~DatabaseCtor /\ (~moduleAvailable \/ initFail = "load")
    THEN InitResult(TRUE, db, FALSE, FALSE, schema)
  ELSE IF initFail = "open"
    THEN InitResult(TRUE, db, moduleAvailable, TRUE, schema)
  ELSE IF initFail = "journal"
    THEN InitResult(TRUE, [open |-> TRUE, foreign_keys |-> TRUE],
                    moduleAvailable, TRUE, schema)
  ELSE IF initFail = "schema"
    THEN InitResult(TRUE, [open |-> TRUE, foreign_keys |-> TRUE],
                    moduleAvailable, TRUE, schema)
  ELSE InitResult(FALSE, [open |-> TRUE, foreign_keys |-> TRUE],
                  moduleAvailable, TRUE, TRUE)

\* (mutant) the turn id is left as it is
ResetState_KeepTurn(st, sid) ==
  [st EXCEPT !.sessionId = sid, !.currentTurnIndex = NULL,
             !.currentIteration = 0, !.toolCallStarts = EmptyMap]

\* the correlator fields session_start assigns
ResetState(st, sid) ==
  [st EXCEPT !.sessionId = sid, !.currentTurnId = NULL, !.currentTurnIndex = NULL,
             !.currentIteration = 0, !.toolCallStarts = EmptyMap]

\* ---- pi.on("session_start") ----
SessionStart(sid, ctx, initFail, fail, t) ==
  LET r == initDatabase(initFail)
      inserted == ~r.threw /\ ~fail /\ r.schema
  IN /\ Delivered(t)
     /\ db' = r.db
     /\ moduleAvailable' = r.moduleAvailable
     /\ DatabaseCtor' = r.DatabaseCtor
     /\ schema' = r.schema
     /\ state' = IF r.threw THEN state ELSE ResetState(state, sid)
     /\ sessions' = IF inserted THEN UpsertSession(sessions, sid, ctx, t) ELSE sessions
     /\ status' = IF ~ctx.hasUI THEN status
                  ELSE IF r.threw THEN "disabled" ELSE "active"
     /\ last' = [Outcome("session_start", FALSE, FALSE,
                          inserted /\ sid \in DOMAIN sessions)
                    EXCEPT !.failed = ~r.threw /\ ~inserted,
                           !.id = IF r.threw THEN NONE ELSE sid]
     /\ hist' = IF r.threw THEN [hist EXCEPT !.initFailed = TRUE]
                ELSE [hist EXCEPT !.initFailed = FALSE,
                                  !.fresh = inserted /\ sid \notin DOMAIN sessions,
                                  !.clean = inserted, !.mono = TRUE, !.open = FALSE,
                                  !.nStarts = 0, !.sumIn = 0, !.sumOut = 0,
                                  !.sumCost = 0, !.tsLog = <<>>,
                                  !.pending = EmptyMap, !.applied = 0]
     /\ UNCHANGED <<turns, tool_calls, messages, model_changes, txn>>

\* ---- pi.on("input") ----
\* (mutant) the user message is bound to the current turn
NewUserMessage_WithTurn(sid, content, t) ==
  [session_id |-> sid, role |-> "user", content |-> content,
   turn_id |-> state.currentTurnId, timestamp |-> t]

NewUserMessage(sid, content, t) ==
  [session_id |-> sid, role |-> "user", content |-> content, turn_id |-> NULL,
   timestamp |-> t]

Input(text, fail, t) ==
  /\ Delivered(t)
  /\ IF Disabled THEN Ignored("input")
     ELSE IF ~text.present
       THEN \* truncate(undefined): text.length throws outside any try block
            /\ last' = Outcome("input", TRUE, FALSE, FALSE)
            /\ UNCHANGED <<db, moduleAvailable, DatabaseCtor, state, store, txn,
                           status, hist>>
     ELSE LET ok == ~StatementFails(fail) /\ SessionFK(db, state.sessionId)
          IN /\ messages' = IF ok
                  THEN Append(messages,
                              NewUserMessage(state.sessionId, truncate(text), t))
                  ELSE messages
             /\ last' = [Outcome("input", FALSE, FALSE, ok)
                            EXCEPT !.failed = ~ok, !.size = text.len]
             /\ hist' = [hist EXCEPT !.clean = @ /\ ok]
             /\ UNCHANGED <<db, moduleAvailable, DatabaseCtor, state, schema,
                            sessions, turns, tool_calls, model_changes, txn, status>>

\* ---- pi.on("session_shutdown") ----
\* (mutant) the update has no WHERE clause
UpdateSessionEnd_AllRows(ss, sid, t) ==
  [x \in DOMAIN ss |-> [ss[x] EXCEPT !.ended_at = t]]

\* UPDATE sessions SET ended_at = ? WHERE id = ?
UpdateSessionEnd(ss, sid, t) ==
  IF sid \in DOMAIN ss THEN [ss EXCEPT ![sid].ended_at = t] ELSE ss

\* (mutant) the open-tool-call map is left as it is
ClearState_KeepMap(st) == [st EXCEPT !.sessionId = NONE]

\* (mutant) the finally block leaves the session id
ClearState_KeepSession(st) == [st EXCEPT !.toolCallStarts = EmptyMap]

\* the correlator fields the finally block assigns
ClearState(st) == [st EXCEPT !.toolCallStarts = EmptyMap, !.sessionId = NONE]

SessionShutdown(fail, t) ==
  /\ Delivered(t)
  /\ IF Disabled THEN Ignored("session_shutdown")
     ELSE LET sid == state.sessionId
              ok == ~StatementFails(fail) /\ sid \in DOMAIN sessions
          IN /\ sessions' = IF StatementFails(fail) THEN sessions
                            ELSE UpdateSessionEnd(sessions, sid, t)
             /\ state' = ClearState(state)
             /\ db' = Closed
             /\ last' = [Outcome("session_shutdown", FALSE, FALSE, ok)
                            EXCEPT !.failed = StatementFails(fail)]
             /\ hist' = [hist EXCEPT !.pending = EmptyMap]
             /\ UNCHANGED <<moduleAvailable, DatabaseCtor, schema, turns, tool_calls,
                            messages, model_changes, txn, status>>

\* ---- pi.on("turn_start") ----
\* (mutant) the same turn index leaves the counter as it is
NextIteration_NoIncrement(st, idx) ==
  IF st.currentTurnIndex # idx THEN 0 ELSE st.currentIteration

NextIteration(st, idx) ==
  IF st.currentTurnIndex # idx THEN 0 ELSE st.currentIteration + 1

TurnStart(idx, fail, t) ==
  /\ Delivered(t)
  /\ IF Disabled THEN Ignored("turn_start")
     ELSE LET sid == state.sessionId
              iter == NextIteration(state, idx)
              threw == StatementFails(fail) \/ ~SessionFK(db, sid)
              row == TurnRowOf(turns, sid, idx, iter)
              conflict == ~threw /\ row # 0
          IN /\ turns' = IF threw THEN turns ELSE UpsertTurn(turns, sid, idx, iter, t)
             /\ state' = [state EXCEPT
                            !.currentTurnStartedAt = t,
                            !.currentTurnIndex = idx,
                            !.currentIteration = iter,
                            !.currentTurnId =
                               IF threw THEN @ ELSE ReturningId(turns, sid, idx, iter)]
             /\ last' = [Outcome("turn_start", FALSE, FALSE, conflict)
                            EXCEPT !.failed = threw]
             /\ hist' = [hist EXCEPT
                           !.clean = @ /\ ~threw /\ ~hist.open,
                           !.mono = @ /\ (hist.tsLog = <<>>
                                          \/ hist.tsLog[Len(hist.tsLog)][1] <= idx),
                           !.open = TRUE,
                           !.nStarts = @ + 1,
                           !.applied = 0,
                           !.tsLog = Append(@, <<idx, iter>>)]
             /\ UNCHANGED <<db, moduleAvailable, DatabaseCtor, schema, sessions,
                            tool_calls, messages, model_changes, txn, status>>

\* ---- pi.on("turn_end") ----
\* msg.role === "assistant", and whether msg.usage is there
MessageKind(msg) ==
  IF msg.role # "assistant" THEN "other"
  ELSE IF msg.usage.present THEN "assistant" ELSE "assistant_no_usage"

\* (mutant) usage, model and content are read from a message of any role
TurnEndArgs_AnyRole(msg, t) ==
  [turnId |-> state.currentTurnId,
   sessionId |-> state.sessionId,
   endedAt |-> t,
   durationMs |-> IF state.currentTurnStartedAt # NULL
                    THEN t - state.currentTurnStartedAt ELSE NULL,
   inputTokens |-> IF msg.usage.present THEN msg.usage.input ELSE 0,
   outputTokens |-> IF msg.usage.present THEN msg.usage.output ELSE 0,
   cost |-> IF msg.usage.present THEN msg.usage.cost ELSE 0,
   provider |-> msg.provider,
   model |-> msg.model,
   stopReason |-> msg.stopReason,
   assistantText |-> IF msg.content.present
                       THEN extractTextContent(msg.content) ELSE NoText]

\* the values the handler binds into commitTurn's statements
TurnEndArgs(msg, t) ==
  LET assistant == msg.role = "assistant"
  IN [turnId |-> state.currentTurnId,
      sessionId |-> state.sessionId,
      endedAt |-> t,
      durationMs |-> IF state.currentTurnStartedAt # NULL
                       THEN t - state.currentTurnStartedAt ELSE NULL,
      inputTokens |-> IF assistant /\ msg.usage.present THEN msg.usage.input ELSE 0,
      outputTokens |-> IF assistant /\ msg.usage.present THEN msg.usage.output ELSE 0,
      cost |-> IF assistant /\ msg.usage.present THEN msg.usage.cost ELSE 0,
      provider |-> IF assistant THEN msg.provider ELSE NONE,
      model |-> IF assistant THEN msg.model ELSE NONE,
      stopReason |-> IF assistant THEN msg.stopReason ELSE NONE,
      assistantText |-> IF assistant /\ msg.content.present
                          THEN extractTextContent(msg.content) ELSE NoText]

\* UPDATE turns SET ended_at = ?, ... WHERE id = ?
UpdateTurnEnd(ts, a) ==
  IF a.turnId \in 1..Len(ts)
    THEN [ts EXCEPT ![a.turnId] =
            [@ EXCEPT !.ended_at = a.endedAt, !.duration_ms = a.durationMs,
                      !.model_provider = a.provider, !.model_id = a.model,
                      !.input_tokens = a.inputTokens, !.output_tokens = a.outputTokens,
                      !.cost = a.cost, !.stop_reason = a.stopReason]]
    ELSE ts

\* UPDATE sessions SET total_input_tokens = total_input_tokens + ?, ... WHERE id = ?
AddSessionTotals(ss, a) ==
  IF a.sessionId \in DOMAIN ss
    THEN [ss EXCEPT ![a.sessionId] =
            [@ EXCEPT !.total_input_tokens = @ + a.inputTokens,
                      !.total_output_tokens = @ + a.outputTokens,
                      !.total_cost = @ + a.cost]]
    ELSE ss

\* INSERT INTO messages (session_id, role, content, turn_id, timestamp)
InsertAssistantMessage(ms, a) ==
  Append(ms, [session_id |-> a.sessionId, role |-> "assistant",
              content |-> a.assistantText, turn_id |-> a.turnId,
              timestamp |-> a.endedAt])

\* the statements commitTurn runs, in order
commitTurnStatements(a) ==
  <<"turn", "session">> \o (IF Truthy(a.assistantText) THEN <<"message">> ELSE <<>>)

Tables == [sessions |-> sessions, turns |-> turns, messages |-> messages]

ApplyStatement(v, stmt, a) ==
  IF stmt = "turn" THEN [v EXCEPT !.turns = UpdateTurnEnd(@, a)]
  ELSE IF stmt = "session" THEN [v EXCEPT !.sessions = AddSessionTotals(@, a)]
  ELSE [v EXCEPT !.messages = InsertAssistantMessage(@, a)]

RECURSIVE Applied(_, _, _)
\* the tables as the open transaction sees them after its first k statements
Applied(v, a, k) ==
  IF k = 0 THEN v
  ELSE ApplyStatement(Applied(v, a, k - 1), commitTurnStatements(a)[k], a)

\* (mutant) the statements run outside a transaction: what ran stays
TransactionResult_NoRollback(committed, view, failed) == view

\* db.transaction(): a statement that throws rolls everything back
TransactionResult(committed, view, failed) ==
  IF failed THEN committed ELSE view

\* what a connection other than the writer's reads
Snapshot == Tables

TurnEnd(msg, t) ==
  /\ Delivered(t)
  /\ IF Disabled THEN Ignored("turn_end")
     ELSE IF state.currentTurnId = NULL
       THEN /\ last' = Outcome("turn_end", FALSE, TRUE, FALSE)
            /\ hist' = [hist EXCEPT !.clean = FALSE]
            /\ UNCHANGED <<db, moduleAvailable, DatabaseCtor, state, store, txn, status>>
     ELSE IF ~msg.present
       THEN \* msg.role on undefined throws inside the try block
            /\ last' = Outcome("turn_end", FALSE, FALSE, FALSE)
            /\ hist' = [hist EXCEPT !.clean = FALSE, !.open = FALSE]
            /\ UNCHANGED <<db, moduleAvailable, DatabaseCtor, state, store, txn, status>>
     ELSE LET a == TurnEndArgs(msg, t)
          IN /\ txn' = [active |-> TRUE, pc |-> 0, args |-> a]
             /\ last' = [Outcome("turn_end", FALSE, FALSE, FALSE)
                            EXCEPT !.size = IF msg.role = "assistant" /\ msg.content.present
                                              THEN JoinedLength(msg.content.items)
                                              ELSE NULL,
                                   !.kind = MessageKind(msg)]
             /\ hist' = [hist EXCEPT !.clean = @ /\ hist.open,
                                     !.open = FALSE,
                                     !.failedStmt = 0,
                                     !.sumIn = @ + a.inputTokens,
                                     !.sumOut = @ + a.outputTokens,
                                     !.sumCost = @ + a.cost]
             /\ UNCHANGED <<db, moduleAvailable, DatabaseCtor, state, store, status>>

\* one statement of the open commitTurn transaction; the last one commits
CommitTurnStep(fail) ==
  /\ txn.active
  /\ LET a == txn.args
         stmts == commitTurnStatements(a)
         k == txn.pc + 1
         failed == \/ StatementFails(fail)
                   \/ /\ stmts[k] = "message"
                      /\ ~(SessionFK(db, a.sessionId) /\ TurnFK(db, a.turnId))
         done == failed \/ k = Len(stmts)
         result == TransactionResult(Tables, Applied(Tables, a, k), failed)
     IN /\ txn' = IF done THEN NoTxn ELSE [txn EXCEPT !.pc = k]
        /\ sessions' = IF done THEN result.sessions ELSE sessions
        /\ turns' = IF done THEN result.turns ELSE turns
        /\ messages' = IF done THEN result.messages ELSE messages
        /\ last' = [last EXCEPT !.hit = done /\ ~failed, !.failed = failed]
        /\ hist' = IF failed THEN [hist EXCEPT !.clean = FALSE, !.failedStmt = k]
                   ELSE IF done
                     THEN [hist EXCEPT
                             !.applied = IF result # Tables THEN @ + 1 ELSE @,
                             !.counted =
                               IF /\ a.sessionId \in DOMAIN sessions
                                  /\ a.inputTokens + a.outputTokens + a.cost > 0
                                 THEN @ \cup {a.turnId} ELSE @]
                   ELSE hist
  /\ UNCHANGED <<db, moduleAvailable, DatabaseCtor, state, schema, tool_calls,
                 model_changes, now, status, nEvents>>

\* ---- pi.on("tool_call") ----
\* JSON.stringify(event.input), cut at MAX_RESULT_SIZE
InputJson(input) ==
  IF input.len > MAX_RESULT_SIZE
    THEN [len |-> MAX_RESULT_SIZE, marker |-> <<TRUNCATION_SUFFIX>>]
    ELSE [len |-> input.len, marker |-> <<>>]

NewToolCallRow(sid, tid, input, t) ==
  [session_id |-> sid, turn_id |-> tid, tool_name |-> "bash",
   input_json |-> InputJson(input), started_at |-> t, ended_at |-> NULL,
   duration_ms |-> NULL, is_error |-> 0, result_text |-> NoText]

MapSet(m, k, v) == [x \in DOMAIN m \cup {k} |-> IF x = k THEN v ELSE m[x]]

\* (mutant) the entry stays
MapDelete_Keep(m, k) == m

MapDelete(m, k) == [x \in DOMAIN m \ {k} |-> m[x]]

ToolCall(id, input, fail, t) ==
  /\ Delivered(t)
  /\ IF Disabled THEN Ignored("tool_call")
     ELSE LET sid == state.sessionId
              ok == /\ input.present   \* else inputJson.length throws in the try block
                    /\ ~StatementFails(fail)
                    /\ id \notin DOMAIN tool_calls
                    /\ SessionFK(db, sid)
                    /\ TurnFK(db, state.currentTurnId)
          IN /\ state' = [state EXCEPT !.toolCallStarts = MapSet(@, id, t)]
             /\ tool_calls' = IF ok
                  THEN MapSet(tool_calls, id,
                              NewToolCallRow(sid, state.currentTurnId, input, t))
                  ELSE tool_calls
             /\ last' = [Outcome("tool_call", FALSE, FALSE, ok)
                            EXCEPT !.failed = input.present /\ ~ok, !.id = id,
                                   !.size = IF input.present THEN input.len ELSE NULL]
             /\ hist' = [hist EXCEPT
                           !.clean = @ /\ ok,
                           !.pending = [x \in DOMAIN @ \cup {id} |->
                                          IF x = id THEN t ELSE @[x]]]
             /\ UNCHANGED <<db, moduleAvailable, DatabaseCtor, schema, sessions, turns,
                            messages, model_changes, txn, status>>

\* ---- pi.on("tool_result") ----
\* (mutant) the update has no WHERE clause
UpdateToolResult_AllRows(tcs, id, endedAt, durationMs, isError, resultText) ==
  [x \in DOMAIN tcs |->
     [tcs[x] EXCEPT !.ended_at = endedAt, !.duration_ms = durationMs,
                    !.is_error = isError, !.result_text = resultText]]

\* UPDATE tool_calls SET ended_at = ?, duration_ms = ?, is_error = ?,
\* result_text = ? WHERE id = ?
UpdateToolResult(tcs, id, endedAt, durationMs, isError, resultText) ==
  IF id \in DOMAIN tcs
    THEN [tcs EXCEPT ![id] =
            [@ EXCEPT !.ended_at = endedAt, !.duration_ms = durationMs,
                      !.is_error = isError, !.result_text = resultText]]
    ELSE tcs

\* (mutant) an id without entry counts as started at time 0
StartedAt_Zero(st, id, endedAt) ==
  IF id \in DOMAIN st.toolCallStarts THEN st.toolCallStarts[id] ELSE 0

\* state.toolCallStarts.get(event.toolCallId) ?? endedAt
StartedAt(st, id, endedAt) ==
  IF id \in DOMAIN st.toolCallStarts THEN st.toolCallStarts[id] ELSE endedAt

ToolResult(id, content, isError, fail, t) ==
  /\ Delivered(t)
  /\ IF Disabled THEN Ignored("tool_result")
     ELSE LET startedAt == StartedAt(state, id, t)
              ran == content.present  \* else extractTextContent throws in the try block
                     /\ ~StatementFails(fail)
              ok == ran /\ id \in DOMAIN tool_calls
          IN /\ state' = [state EXCEPT !.toolCallStarts = MapDelete(@, id)]
             /\ tool_calls' = IF ran
                  THEN UpdateToolResult(tool_calls, id, t, t - startedAt,
                                        IF isError THEN 1 ELSE 0,
                                        extractTextContent(content))
                  ELSE tool_calls
             /\ last' = [Outcome("tool_result", FALSE, FALSE, ok)
                            EXCEPT !.failed = content.present /\ StatementFails(fail),
                                   !.id = id,
                                   !.size = IF content.present
                                              THEN JoinedLength(content.items)
                                              ELSE NULL]
             /\ hist' = [hist EXCEPT
                           !.clean = @ /\ ran,
                           !.pending = [x \in DOMAIN @ \ {id} |-> @[x]]]
             /\ UNCHANGED <<db, moduleAvailable, DatabaseCtor, schema, sessions, turns,
                            messages, model_changes, txn, status>>

\* ---- pi.on("model_select") ----
\* (mutant) the previous model is stored as the new one and the new as the previous
NewModelChangeRow_Swapped(sid, e, t) ==
  [session_id |-> sid, timestamp |-> t, source |-> e.source,
   from_provider |-> e.provider, from_model_id |-> e.model,
   to_provider |-> IF e.hasPrevious THEN e.prevProvider ELSE NONE,
   to_model_id |-> IF e.hasPrevious THEN e.prevModel ELSE NONE]

NewModelChangeRow(sid, e, t) ==
  [session_id |-> sid, timestamp |-> t, source |-> e.source,
   from_provider |-> IF e.hasPrevious THEN e.prevProvider ELSE NONE,
   from_model_id |-> IF e.hasPrevious THEN e.prevModel ELSE NONE,
   to_provider |-> e.provider, to_model_id |-> e.model]

ModelSelect(e, fail, t) ==
  /\ Delivered(t)
  /\ IF Disabled THEN Ignored("model_select")
     ELSE LET sid == state.sessionId
              ok == /\ e.hasModel   \* else event.model.provider throws in the try block
                    /\ ~StatementFails(fail)
                    /\ SessionFK(db, sid)
          IN /\ model_changes' = IF ok
                  THEN Append(model_changes, NewModelChangeRow(sid, e, t))
                  ELSE model_changes
             /\ last' = [Outcome("model_select", FALSE, FALSE, ok)
                            EXCEPT !.failed = e.hasModel /\ ~ok, !.arg = e]
             /\ hist' = [hist EXCEPT !.clean = @ /\ ok]
             /\ UNCHANGED <<db, moduleAvailable, DatabaseCtor, state, schema, sessions,
                            turns, tool_calls, messages, txn, status>>

\* ---- the host ----
RowSessionIds(rows) == {rows[i].session_id : i \in DOMAIN rows}

\* Session ids are opaque: getSessionId() returns an id the recorder has seen,
\* or the first id of SessionOrder it has not.
SeenSessionIds ==
  (DOMAIN sessions) \cup ({state.sessionId} \ {NONE}) \cup RowSessionIds(turns)
    \cup RowSessionIds(tool_calls) \cup RowSessionIds(messages)
    \cup RowSessionIds(model_changes)

NextSessionIds ==
  LET unseen == {i \in 1..Len(SessionOrder) : SessionOrder[i] \notin SeenSessionIds}
  IN SeenSessionIds \cup
       (IF unseen = {} THEN {}
        ELSE {SessionOrder[CHOOSE i \in unseen : \A j \in unseen : i <= j]})

\* Tool-call ids are opaque too
SeenToolCallIds == (DOMAIN tool_calls) \cup (DOMAIN state.toolCallStarts)

NextToolCallIds ==
  LET unseen == {i \in 1..Len(ToolCallOrder) : ToolCallOrder[i] \notin SeenToolCallIds}
  IN SeenToolCallIds \cup
       (IF unseen = {} THEN {}
        ELSE {ToolCallOrder[CHOOSE i \in unseen : \A j \in unseen : i <= j]})

\* the host delivers the next event one clock unit after the last one, and
\* at most max events in all
Times(max) == IF nEvents < max THEN {now + 1} ELSE {}

\* every event, every failure
Next ==
  \/ \E t \in Times(MaxEvents), sid \in NextSessionIds, ctx \in Contexts,
        f \in InitFailures, fail \in BOOLEAN : SessionStart(sid, ctx, f, fail, t)
  \/ \E t \in Times(MaxEvents), text \in InputTexts, fail \in BOOLEAN :
       Input(text, fail, t)
  \/ \E t \in Times(MaxEvents), fail \in BOOLEAN : SessionShutdown(fail, t)
  \/ \E t \in Times(MaxEvents), idx \in TurnIndexes, fail \in BOOLEAN :
       TurnStart(idx, fail, t)
  \/ \E t \in Times(MaxEvents), msg \in TurnEndMessages : TurnEnd(msg, t)
  \/ \E fail \in BOOLEAN : CommitTurnStep(fail)
  \/ \E t \in Times(MaxEvents), id \in NextToolCallIds, input \in ToolInputs,
        fail \in BOOLEAN : ToolCall(id, input, fail, t)
  \/ \E t \in Times(MaxEvents), id \in NextToolCallIds, content \in ToolResultContents,
        isError \in BOOLEAN, fail \in BOOLEAN : ToolResult(id, content, isError, fail, t)
  \/ \E t \in Times(MaxEvents), e \in ModelSelectEvents, fail \in BOOLEAN :
       ModelSelect(e, fail, t)

Spec == Init /\ [][Next]_vars

\* session and turn events only, on a store that opens
NextTurns ==
  \/ \E t \in Times(MaxTurnEvents), sid \in NextSessionIds, ctx \in Contexts,
        fail \in BOOLEAN : SessionStart(sid, ctx, "none", fail, t)
  \/ \E t \in Times(MaxTurnEvents), fail \in BOOLEAN : SessionShutdown(fail, t)
  \/ \E t \in Times(MaxTurnEvents), idx \in TurnIndexes, fail \in BOOLEAN :
       TurnStart(idx, fail, t)
  \/ \E t \in Times(MaxTurnEvents), msg \in TurnEndMessages : TurnEnd(msg, t)
  \/ \E fail \in BOOLEAN : CommitTurnStep(fail)

SpecTurns == Init /\ [][NextTurns]_vars

\* an orderly host on a store that opens: a session is started (new or
\* resumed) only when none is active and shut down only between turns, each
\* turn-start is followed by one turn-end before the next turn-start; of the
\* statements only those of commitTurn may fail
NextScenario ==
  \/ \E t \in Times(MaxScenarioEvents), sid \in NextSessionIds, ctx \in Contexts :
       /\ ~db.open
       /\ SessionStart(sid, ctx, "none", FALSE, t)
  \/ \E t \in Times(MaxScenarioEvents) :
       /\ ~hist.open
       /\ SessionShutdown(FALSE, t)
  \/ \E t \in Times(MaxScenarioEvents), idx \in TurnIndexes :
       /\ db.open /\ ~hist.open
       /\ TurnStart(idx, FALSE, t)
  \/ \E t \in Times(MaxScenarioEvents), msg \in TurnEndMessages :
       /\ hist.open
       /\ TurnEnd(msg, t)
  \/ \E fail \in BOOLEAN : CommitTurnStep(fail)

SpecScenario == Init /\ [][NextScenario]_vars

\* one session on a store that opens, every statement succeeds, and the
\* events carry free text of the sizes of TextSizes
NextText ==
  \/ \E t \in Times(MaxTextEvents), ctx \in Contexts :
       /\ ~db.open
       /\ SessionStart("s1", ctx, "none", FALSE, t)
  \/ \E t \in Times(MaxTextEvents) : TurnStart(0, FALSE, t)
  \/ \E t \in Times(MaxTextEvents), n \in TextSizes :
       Input([present |-> TRUE, len |-> n], FALSE, t)
  \/ \E t \in Times(MaxTextEvents), id \in NextToolCallIds, n \in TextSizes :
       ToolCall(id, [present |-> TRUE, len |-> n], FALSE, t)
  \/ \E t \in Times(MaxTextEvents), id \in NextToolCallIds, content \in TextContents :
       ToolResult(id, content, FALSE, FALSE, t)
  \/ \E t \in Times(MaxTextEvents), content \in TextContents :
       TurnEnd([present |-> TRUE, role |-> "assistant", usage |-> NoUsage,
                provider |-> "p1", model |-> "m1", stopReason |-> "stop",
                content |-> content], t)
  \/ CommitTurnStep(FALSE)

SpecText == Init /\ [][NextText]_vars

\* one session on a store that opens: turn, input and tool-call events with
\* the wider set of turn-end messages; the statements of the inserts succeed,
\* those of commitTurn may fail
NextRows ==
  \/ \E t \in Times(MaxRowEvents), ctx \in Contexts :
       /\ ~db.open
       /\ SessionStart("s1", ctx, "none", FALSE, t)
  \/ \E t \in Times(MaxRowEvents), idx \in TurnIndexes : TurnStart(idx, FALSE, t)
  \/ \E t \in Times(MaxRowEvents), msg \in WiderTurnEndMessages : TurnEnd(msg, t)
  \/ \E fail \in BOOLEAN : CommitTurnStep(fail)
  \/ \E t \in Times(MaxRowEvents) : Input([present |-> TRUE, len |-> 1], FALSE, t)
  \/ \E t \in Times(MaxRowEvents), id \in NextToolCallIds :
       ToolCall(id, [present |-> TRUE, len |-> 2], FALSE, t)

SpecRows == Init /\ [][NextRows]_vars

\* successive sessions in one process on a store that opens: sessions are
\* started (new or resumed, with or without a shutdown before) and shut down
\* at any point between turn and tool-call events; of the statements only
\* the insert of turn_start may fail
NextSessions ==
  \/ \E t \in Times(MaxSessionEvents), sid \in NextSessionIds :
       SessionStart(sid, [sessionFile |-> "f1", cwd |-> "d1", provider |-> "p1",
                          model |-> "m1", hasUI |-> TRUE], "none", FALSE, t)
  \/ \E t \in Times(MaxSessionEvents) : SessionShutdown(FALSE, t)
  \/ \E t \in Times(MaxSessionEvents), fail \in BOOLEAN : TurnStart(0, fail, t)
  \/ \E t \in Times(MaxSessionEvents) :
       TurnEnd([present |-> TRUE, role |-> "assistant", usage |-> Usage(3, 2, 2),
                provider |-> "p1", model |-> "m1", stopReason |-> "stop",
                content |-> Content(<<TextItem(1)>>)], t)
  \/ CommitTurnStep(FALSE)
  \/ \E t \in Times(MaxSessionEvents), id \in NextToolCallIds :
       ToolCall(id, [present |-> TRUE, len |-> 2], FALSE, t)

SpecSessions == Init /\ [][NextSessions]_vars

\* ======================= claims =======================

\* the sum of a column over the turns rows of one session
TurnSum(sid, column) ==
  LET RECURSIVE Sum(_)
      Sum(I) == IF I = {} THEN 0
                ELSE LET i == CHOOSE j \in I : TRUE
                     IN turns[i][column] + Sum(I \ {i})
  IN Sum({i \in 1..Len(turns) : turns[i].session_id = sid})

TurnRowsOf(sid) == {i \in 1..Len(turns) : turns[i].session_id = sid}

SessionActive == db.open /\ state.sessionId # NONE

\* C1: whenever no turn-end transaction is open, each Session row's token and
\* cost totals equal the sums of those columns over the session's Turn rows.
C1_TotalsEqualTurnSums ==
  ~txn.active =>
    \A sid \in DOMAIN sessions :
      /\ sessions[sid].total_input_tokens = TurnSum(sid, "input_tokens")
      /\ sessions[sid].total_output_tokens = TurnSum(sid, "output_tokens")
      /\ sessions[sid].total_cost = TurnSum(sid, "cost")

\* C2: in the turn-starts handled since the last session-start, a turn-start
\* is given iteration 0 when it is the first one or its turn index differs
\* from the previous turn-start's, and the previous iteration plus 1 when the
\* turn index is the same; the correlator holds the number given last.
C2_IterationRule ==
  LET log == hist.tsLog
  IN /\ \A i \in 1..Len(log) :
          log[i][2] = IF i > 1 /\ log[i - 1][1] = log[i][1]
                        THEN log[i - 1][2] + 1 ELSE 0
     /\ (SessionActive /\ log # <<>>) =>
          /\ state.currentTurnIndex = log[Len(log)][1]
          /\ state.currentIteration = log[Len(log)][2]
     /\ (SessionActive /\ log = <<>>) => state.currentIteration = 0

\* C2 witness: a non-decreasing run of turn-starts with an increment and a reset
C2_Witness ==
  /\ SessionActive
  /\ hist.mono
  /\ hist.tsLog = <<<<0, 0>>, <<0, 1>>, <<1, 0>>>>

\* the one-row-per-turn-start and totals statement of C3 for the active session
OneRowPerTurnStart ==
  LET sid == state.sessionId
  IN /\ Cardinality(TurnRowsOf(sid)) = hist.nStarts
     /\ ~txn.active =>
          /\ sessions[sid].total_input_tokens = hist.sumIn
          /\ sessions[sid].total_output_tokens = hist.sumOut
          /\ sessions[sid].total_cost = hist.sumCost

\* C3: for a fresh session whose turn-starts and turn-ends strictly alternate
\* and whose writes all succeed, there is one Turn row per turn-start and the
\* Session totals are the sums of the turn-end events' values.
C3_OneRowPerTurnStart ==
  (SessionActive /\ hist.fresh /\ hist.clean) => OneRowPerTurnStart

\* C4: no handler lets an error escape to the host.
C4_NoHandlerThrows == ~last.threw

\* C5: after a session-start whose initDatabase threw, and until a
\* session-start whose initDatabase succeeds, every other event leaves the
\* store, the handle and the correlator as they are and its handler returns
\* normally.
C5_DisabledIsNoOp ==
  [][(hist.initFailed /\ nEvents' = nEvents + 1 /\ last'.ev # "session_start")
       => (store' = store /\ state' = state /\ db' = db /\ ~last'.threw)]_vars

\* C5 witness: initialization failed after the file was opened, and a
\* tool_call was delivered afterwards
C5_Witness ==
  hist.initFailed /\ db.open /\ last.ev = "tool_call"

\* what the three statements of commitTurn do together, in terms of the rows
AllApplied ==
  LET a == txn.args
  IN /\ Len(turns') = Len(turns)
     /\ \A i \in 1..Len(turns) : i # a.turnId => turns'[i] = turns[i]
     /\ turns'[a.turnId].ended_at = a.endedAt
     /\ turns'[a.turnId].duration_ms = a.durationMs
     /\ turns'[a.turnId].input_tokens = a.inputTokens
     /\ turns'[a.turnId].output_tokens = a.outputTokens
     /\ turns'[a.turnId].cost = a.cost
     /\ turns'[a.turnId].stop_reason = a.stopReason
     /\ turns'[a.turnId].model_provider = a.provider
     /\ turns'[a.turnId].model_id = a.model
     /\ DOMAIN sessions' = DOMAIN sessions
     /\ \A x \in DOMAIN sessions :
          IF x = a.sessionId
            THEN /\ sessions'[x].total_input_tokens =
                      sessions[x].total_input_tokens + a.inputTokens
                 /\ sessions'[x].total_output_tokens =
                      sessions[x].total_output_tokens + a.outputTokens
                 /\ sessions'[x].total_cost = sessions[x].total_cost + a.cost
            ELSE sessions'[x] = sessions[x]
     /\ IF Truthy(a.assistantText)
          THEN /\ Len(messages') = Len(messages) + 1
               /\ SubSeq(messages', 1, Len(messages)) = messages
               /\ messages'[Len(messages')].role = "assistant"
               /\ messages'[Len(messages')].turn_id = a.turnId
               /\ messages'[Len(messages')].content = a.assistantText
          ELSE messages' = messages

\* C6: when the turn-end transaction finishes, either the Turn update, the
\* Session increment and (with assistant text) the Message insert have all
\* taken effect, or the tables are exactly as before the turn-end event.
C6_TurnEndAllOrNothing ==
  [][(txn.active /\ ~txn'.active) => (AllApplied \/ Tables' = Tables)]_vars

\* C6 witness: the message insert failed after both updates had run
C6_Witness ==
  ~txn.active /\ last.ev = "turn_end" /\ hist.failedStmt = 3

\* C7: no snapshot shows a Session total that includes a turn's delta while
\* that Turn row has no end timestamp, nor an assistant Message whose Turn row
\* is absent or has no end timestamp.
C7_SnapshotConsistent ==
  LET snap == Snapshot
  IN /\ \A id \in hist.counted :
          id \in 1..Len(snap.turns) /\ snap.turns[id].ended_at # NULL
     /\ \A i \in 1..Len(snap.messages) :
          snap.messages[i].role = "assistant" =>
            /\ snap.messages[i].turn_id \in 1..Len(snap.turns)
            /\ snap.turns[snap.messages[i].turn_id].ended_at # NULL

RowsReferToSessions(rows) ==
  \A i \in DOMAIN rows : rows[i].session_id \in DOMAIN sessions

\* C8: every Turn, ToolCall, Message and ModelChange row has the id of an
\* existing Session row.
C8_ReferentialIntegrity ==
  /\ RowsReferToSessions(turns)
  /\ RowsReferToSessions(tool_calls)
  /\ RowsReferToSessions(messages)
  /\ RowsReferToSessions(model_changes)

\* C8 witness: the session-start insert failed and a child insert was attempted
C8_Witness ==
  /\ SessionActive
  /\ state.sessionId \notin DOMAIN sessions
  /\ last.ev \in {"input", "turn_start", "tool_call", "model_select"}
  /\ ~last.noop /\ ~last.threw

\* C9: no two Turn rows share (session id, turn index, iteration number), and
\* after a turn-start that met an existing row, that row has the new start
\* timestamp, no end timestamp, duration, model or stop reason, and tokens and
\* cost 0.
C9_TurnKeyUnique ==
  /\ \A i, j \in 1..Len(turns) :
       (/\ turns[i].session_id = turns[j].session_id
        /\ turns[i].turn_index = turns[j].turn_index
        /\ turns[i].iteration_number = turns[j].iteration_number) => i = j
  /\ (last.ev = "turn_start" /\ last.hit) =>
       LET r == turns[state.currentTurnId]
       IN /\ r.session_id = state.sessionId
          /\ r.turn_index = state.currentTurnIndex
          /\ r.iteration_number = state.currentIteration
          /\ r.started_at = now
          /\ r.ended_at = NULL /\ r.duration_ms = NULL
          /\ r.model_provider = NONE /\ r.model_id = NONE /\ r.stop_reason = NONE
          /\ r.input_tokens = 0 /\ r.output_tokens = 0 /\ r.cost = 0

\* C9 witness: a turn-start met the row of a turn that had been ended
C9_Witness ==
  last.ev = "turn_start" /\ last.hit /\ state.currentTurnId \in hist.counted

\* C10: a session-start whose id already has a Session row adds no row,
\* leaves every other row alone and keeps that row's start timestamp, working
\* directory, end timestamp and totals.
C10_ResumeKeepsRow ==
  [][(/\ nEvents' = nEvents + 1
      /\ last'.ev = "session_start"
      /\ state'.sessionId \in DOMAIN sessions)
       => LET sid == state'.sessionId
          IN /\ DOMAIN sessions' = DOMAIN sessions
             /\ \A x \in DOMAIN sessions : x # sid => sessions'[x] = sessions[x]
             /\ sessions'[sid].started_at = sessions[sid].started_at
             /\ sessions'[sid].cwd = sessions[sid].cwd
             /\ sessions'[sid].ended_at = sessions[sid].ended_at
             /\ sessions'[sid].total_input_tokens = sessions[sid].total_input_tokens
             /\ sessions'[sid].total_output_tokens = sessions[sid].total_output_tokens
             /\ sessions'[sid].total_cost = sessions[sid].total_cost]_vars

\* C10 witness: a session with totals was resumed from another directory
\* with another session file
C10_Witness ==
  /\ last.ev = "session_start" /\ last.hit
  /\ sessions[state.sessionId].session_file = "f2"
  /\ sessions[state.sessionId].cwd = "d1"
  /\ sessions[state.sessionId].model_id = NONE
  /\ sessions[state.sessionId].total_input_tokens > 0
  /\ sessions[state.sessionId].started_at < now

\* C11: a tool-call-result whose id has no ToolCall row changes no row of the
\* store, raises no error and leaves the open-tool-call map without an entry
\* for that id.
C11_UnmatchedResultIsNoOp ==
  [][(/\ nEvents' = nEvents + 1
      /\ last'.ev = "tool_result"
      /\ last'.id \notin DOMAIN tool_calls)
       => (/\ store' = store
           /\ ~last'.threw
           /\ last'.id \notin DOMAIN state'.toolCallStarts)]_vars

\* C11 witness: the update of a tool-call-result ran and met no row, after a
\* tool-call-start whose insert had failed
C11_Witness ==
  /\ last.ev = "tool_result" /\ ~last.noop /\ ~last.failed /\ last.size # NULL
  /\ last.id \notin DOMAIN tool_calls
  /\ ~hist.clean /\ SessionActive /\ state.sessionId \in DOMAIN sessions

\* the fields a tool-call-result sets on a ToolCall row
TerminalFields(row) ==
  <<row.ended_at, row.duration_ms, row.is_error, row.result_text>>

\* C12: once a tool-call-result has set a ToolCall row's end timestamp,
\* duration, error flag and result text, no later event changes them.
C12_OneTerminalUpdate ==
  [][\A id \in DOMAIN tool_calls :
       tool_calls[id].ended_at # NULL =>
         /\ id \in DOMAIN tool_calls'
         /\ TerminalFields(tool_calls'[id]) = TerminalFields(tool_calls[id])]_vars

\* the free-text values the store holds
PersistedTexts ==
  ({messages[i].content : i \in DOMAIN messages}
     \cup {tool_calls[id].input_json : id \in DOMAIN tool_calls}
     \cup {tool_calls[id].result_text : id \in DOMAIN tool_calls}) \ {NoText}

RECURSIVE MarkerLength(_)
MarkerLength(marker) ==
  IF marker = <<>> THEN 0 ELSE Len(Head(marker)) + MarkerLength(Tail(marker))

TextLength(text) == text.len + MarkerLength(text.marker)

\* the value the last event persisted from the free text it carried
LastPersisted ==
  IF last.ev = "tool_call" THEN tool_calls[last.id].input_json
  ELSE IF last.ev = "tool_result" THEN tool_calls[last.id].result_text
  ELSE messages[Len(messages)].content

\* C13: a free text of at most the ceiling is persisted unchanged, a longer one
\* as its first ceiling-many units followed by the truncation marker, so every
\* persisted free text is at most ceiling plus marker length long.
C13_SanitizerCutsAtCeiling ==
  /\ (/\ last.ev \in {"input", "tool_call", "tool_result", "turn_end"}
      /\ last.hit /\ last.size # NULL /\ last.size > 0)
       => LastPersisted =
            IF last.size <= MAX_RESULT_SIZE
              THEN [len |-> last.size, marker |-> <<>>]
              ELSE [len |-> MAX_RESULT_SIZE, marker |-> <<TRUNCATION_SUFFIX>>]
  /\ \A text \in PersistedTexts :
       TextLength(text) <= MAX_RESULT_SIZE + Len(TRUNCATION_SUFFIX)

\* C14: serialized tool input, tool result text, user message content and
\* assistant message content are cut at the same ceiling with the same
\* marker: any two persisted values that were cut are equal.
C14_SameMarkerOnEveryPath ==
  \A v, w \in PersistedTexts :
    (v.marker # <<>> /\ w.marker # <<>>) => v = w

\* C15: an event other than session-start that arrives while no session is
\* active changes no store row and no correlator state and does not raise.
C15_NoSessionIsNoOp ==
  [][(/\ state.sessionId = NONE
      /\ nEvents' = nEvents + 1
      /\ last'.ev # "session_start")
       => (store' = store /\ state' = state /\ ~last'.threw)]_vars

\* C15 witness: a session-shutdown arrived before any session-start
C15_Witness ==
  /\ last.ev = "session_shutdown" /\ last.noop
  /\ status = "unset" /\ ~schema /\ sessions = EmptyMap

\* C16: after a session-shutdown event has been handled no store handle is
\* open.
C16_ShutdownClosesHandle ==
  last.ev = "session_shutdown" => ~db.open

\* the part of the correlator that tells later events which turn they belong to
TurnCorrelator(st) ==
  <<st.currentTurnId, st.currentTurnStartedAt, st.currentTurnIndex,
    st.currentIteration>>

\* C17: a handler whose statement failed leaves the handle open and the
\* session active, and leaves the correlator either as it was before the
\* event or as the handler leaves it when the statement succeeds, so that
\* later events are recorded as if the failure had not happened.
C17_FailureIsIsolated ==
  [][((nEvents' = nEvents + 1 \/ txn.active) /\ last'.failed)
       => /\ last'.ev # "session_shutdown" =>
               (db'.open /\ state'.sessionId # NONE)
          /\ last'.ev = "turn_start" =>
               \/ state' = state
               \/ state'.currentTurnId =
                    ReturningId(turns', state'.sessionId, state'.currentTurnIndex,
                                state'.currentIteration)
          /\ last'.ev \in {"input", "turn_end", "tool_call", "tool_result",
                           "model_select"} =>
               TurnCorrelator(state') = TurnCorrelator(state)]_vars

\* C18: a turn-end that arrives when no turn is open (the correlator names no
\* Turn row, or the row it names has its end timestamp) changes and creates
\* no Turn, Session or Message row.
C18_LateTurnEndDropped ==
  [][(/\ last.ev = "turn_end"
      /\ txn.active
      /\ turns[txn.args.turnId].ended_at # NULL)
       => Tables' = Tables]_vars

\* the store is initialized: the handle is open and the tables exist
StoreInitialized == db.open /\ schema

\* C19: only session-start sets the status indicator, to recording-active
\* when store initialization succeeded and to recording-disabled when it
\* failed.
C19_StatusReflectsInit ==
  /\ [](status \in {"unset", "active", "disabled"})
  /\ [](last.ev = "session_start" =>
          /\ status = IF hist.initFailed THEN "disabled" ELSE "active"
          /\ status = "active" => StoreInitialized)
  /\ [][last'.ev # "session_start" => status' = status]_vars

\* C20: a ToolCall row without end timestamp keeps its end timestamp,
\* duration, error flag and result text as they are through every event
\* that is not a tool-call-result for its own id.
C20_UnresolvedRowStaysOpen ==
  [][\A id \in DOMAIN tool_calls :
       (/\ tool_calls[id].ended_at = NULL
        /\ ~(nEvents' = nEvents + 1 /\ last'.ev = "tool_result" /\ last'.id = id))
         => /\ id \in DOMAIN tool_calls'
            /\ TerminalFields(tool_calls'[id]) = TerminalFields(tool_calls[id])]_vars

\* C20 witness: the row of t1 is still open after a tool-call-result
\* completed the row of t2
C20_Witness ==
  /\ last.ev = "tool_result" /\ last.hit /\ last.id = "t2"
  /\ "t1" \in DOMAIN tool_calls
  /\ tool_calls["t1"].ended_at = NULL
  /\ tool_calls["t2"].ended_at # NULL

\* the correlator right after a session-start whose initialization succeeded
AfterSessionStart == last.ev = "session_start" /\ ~hist.initFailed

\* C21 as stated: after a successful session-start the active session id is
\* the new id, the active turn id, turn index and turn start timestamp are
\* null, the iteration counter is 0 and the open-tool-call map is empty.
C21_SessionStartResets_Stated ==
  AfterSessionStart =>
    state = [sessionId |-> last.id, currentTurnId |-> NULL,
             currentTurnStartedAt |-> NULL, currentTurnIndex |-> NULL,
             currentIteration |-> 0, toolCallStarts |-> EmptyMap]

\* C21 amended: the same for every field but the turn start timestamp, which
\* session-start leaves as it is.
C21_SessionStartResets ==
  [][(nEvents' = nEvents + 1 /\ last'.ev = "session_start" /\ ~hist'.initFailed)
       => state' = [sessionId |-> last'.id, currentTurnId |-> NULL,
                    currentTurnStartedAt |-> state.currentTurnStartedAt,
                    currentTurnIndex |-> NULL, currentIteration |-> 0,
                    toolCallStarts |-> EmptyMap]]_vars

\* C21 witness: a session-start arrived while a turn of the previous session
\* was being tracked
C21_Witness ==
  /\ AfterSessionStart /\ last.id # NONE
  /\ state.currentTurnStartedAt # NULL
  /\ \E i \in 1..Len(turns) : turns[i].started_at = state.currentTurnStartedAt

\* a session-shutdown was handled for an active session
AfterSessionShutdown == last.ev = "session_shutdown" /\ ~last.noop

\* C22 as stated: after session-shutdown of an active session the whole
\* correlator is cleared and the store handle is released.
C22_ShutdownClears_Stated ==
  AfterSessionShutdown => (state = InitState /\ ~db.open)

\* C22 amended: session-shutdown of an active session clears the active
\* session id and the open-tool-call map, leaves the turn fields of the
\* correlator as they are, and releases the store handle.
C22_ShutdownClears ==
  [][(nEvents' = nEvents + 1 /\ last'.ev = "session_shutdown" /\ ~last'.noop)
       => /\ state' = [state EXCEPT !.sessionId = NONE, !.toolCallStarts = EmptyMap]
          /\ db' = Closed]_vars

\* C22 witness: the session was shut down while a turn and a tool call were
\* being tracked
C22_Witness ==
  /\ AfterSessionShutdown
  /\ state.currentTurnId # NULL /\ state.currentTurnIndex # NULL
  /\ \E id \in DOMAIN tool_calls : tool_calls[id].ended_at = NULL

\* C23: session-shutdown of an active session closes the store handle whether
\* its update succeeded or failed; it changes no table but sessions, and when
\* the update succeeded only the end timestamp of the active session's row.
C23_ShutdownClosesAndEnds ==
  [][(nEvents' = nEvents + 1 /\ last'.ev = "session_shutdown" /\ ~last'.noop)
       => /\ ~db'.open
          /\ <<schema, turns, tool_calls, messages, model_changes>>' =
               <<schema, turns, tool_calls, messages, model_changes>>
          /\ DOMAIN sessions' = DOMAIN sessions
          /\ \A x \in DOMAIN sessions :
               sessions'[x] =
                 IF x = state.sessionId /\ ~last'.failed
                   THEN [sessions[x] EXCEPT !.ended_at = now']
                   ELSE sessions[x]]_vars

\* C23 witness: the update failed and the handle was closed nevertheless,
\* leaving the session's row without end timestamp
C23_Witness ==
  /\ AfterSessionShutdown /\ last.failed /\ ~db.open /\ schema
  /\ sessions # EmptyMap
  /\ \A x \in DOMAIN sessions : sessions[x].ended_at = NULL

\* the commit of a turn-end whose message is not an assistant message or is
\* an assistant message without usage
ZeroUsageCommit ==
  /\ txn.active /\ ~txn'.active /\ ~last'.failed
  /\ last.kind \in {"other", "assistant_no_usage"}

\* what such a turn-end records on its Turn row and leaves on the Session row
ZeroUsageRecorded ==
  LET a == txn.args
      row == turns'[a.turnId]
  IN /\ row.input_tokens = 0 /\ row.output_tokens = 0 /\ row.cost = 0
     /\ row.ended_at = a.endedAt
     /\ row.duration_ms = a.endedAt - state.currentTurnStartedAt
     /\ last.kind = "other" =>
          (row.model_provider = NONE /\ row.model_id = NONE /\ row.stop_reason = NONE)
     /\ sessions' = sessions

\* C24 as stated: a turn-end whose message is not of assistant role, or whose
\* assistant message lacks usage, records tokens and cost 0 (model and stop
\* reason null for a non-assistant message), inserts no Message row and
\* leaves the Session totals unchanged, and sets the Turn's end timestamp and
\* duration.
C24_ZeroUsageTurnEnd_Stated ==
  [][ZeroUsageCommit => (ZeroUsageRecorded /\ messages' = messages)]_vars

\* C24 amended: the same, but only a non-assistant message inserts no Message
\* row; an assistant message without usage inserts its text, when it has
\* any, as a Message row of the turn.
C24_ZeroUsageTurnEnd ==
  [][ZeroUsageCommit =>
       /\ ZeroUsageRecorded
       /\ messages' =
            IF last.kind = "assistant_no_usage" /\ last.size # NULL /\ last.size > 0
              THEN Append(messages,
                          [session_id |-> txn.args.sessionId, role |-> "assistant",
                           content |-> txn.args.assistantText,
                           turn_id |-> txn.args.turnId,
                           timestamp |-> txn.args.endedAt])
              ELSE messages]_vars

\* C24 witness: a turn-end with a tool-result message that carries usage and
\* text has been committed, and one with an assistant message without usage
\* and with text
C24_Witness ==
  /\ ~txn.active /\ last.ev = "turn_end" /\ last.hit
  /\ last.kind = "assistant_no_usage" /\ last.size = 3
  /\ Len(turns) = 2
  /\ turns[1].ended_at # NULL /\ turns[1].model_id = NONE
  /\ turns[2].ended_at # NULL /\ turns[2].model_id = "m1"
  /\ Len(messages) = 1 /\ messages[1].turn_id = 2
  /\ \A x \in DOMAIN sessions : sessions[x].total_input_tokens = 0

\* the Turn row that is open: the one the correlator names, if it has no end
\* timestamp; NULL if there is none
OpenTurn ==
  IF state.currentTurnId # NULL /\ turns[state.currentTurnId].ended_at = NULL
    THEN state.currentTurnId ELSE NULL

\* C25: a ToolCall row created by tool-call-start references the turn that is
\* open at that moment, and has a null turn reference when no turn is open.
C25_ToolCallReferencesOpenTurn ==
  [][(/\ nEvents' = nEvents + 1
      /\ last'.ev = "tool_call" /\ last'.hit)
       => tool_calls'[last'.id].turn_id = OpenTurn]_vars

\* C26: the duration a tool-call-result records is result time minus the
\* start time the tool-call-start of that id recorded in the current session,
\* or 0 when none was recorded; afterwards the open-tool-call map has no
\* entry for the id; the map holds exactly the ids, with their start times,
\* whose tool-call-start was seen in the current session and whose result
\* has not been seen.
C26_ToolCallDuration ==
  /\ [](state.toolCallStarts = hist.pending)
  /\ [][(nEvents' = nEvents + 1 /\ last'.ev = "tool_result" /\ ~last'.noop)
          => /\ last'.id \notin DOMAIN state'.toolCallStarts
             /\ last'.hit =>
                  tool_calls'[last'.id].duration_ms =
                    IF last'.id \in DOMAIN hist.pending
                      THEN now' - hist.pending[last'.id] ELSE 0]_vars

\* C26 witness: the result of t1 arrived two events after its start, while
\* t2 was still open
C26_Witness ==
  /\ last.ev = "tool_result" /\ last.hit /\ last.id = "t1"
  /\ tool_calls["t1"].duration_ms = 2
  /\ DOMAIN state.toolCallStarts = {"t2"}

LastMessage(ms) == ms[Len(ms)]

MessageAppended ==
  /\ Len(messages') = Len(messages) + 1
  /\ SubSeq(messages', 1, Len(messages)) = messages

\* C27: a Message row has role user if and only if its turn reference is
\* null; a user-input whose insert succeeds appends exactly one Message, with
\* role user and a null turn; any other change of the Message rows is the
\* commit of a turn-end, which appends one assistant Message that references
\* the Turn row the same transaction updated.
C27_UserIffNoTurn ==
  /\ [](\A i \in 1..Len(messages) :
          (messages[i].role = "user") <=> (messages[i].turn_id = NULL))
  /\ [][(nEvents' = nEvents + 1 /\ last'.ev = "input" /\ last'.hit)
          => /\ MessageAppended
             /\ LastMessage(messages').role = "user"
             /\ LastMessage(messages').turn_id = NULL]_vars
  /\ [][(messages' # messages /\ ~(nEvents' = nEvents + 1 /\ last'.ev = "input"))
          => /\ txn.active /\ ~txn'.active
             /\ MessageAppended
             /\ LET m == LastMessage(messages')
                IN /\ m.role = "assistant"
                   /\ m.turn_id = txn.args.turnId
                   /\ turns[m.turn_id].ended_at # m.timestamp
                   /\ turns'[m.turn_id].ended_at = m.timestamp]_vars

\* C27 witness: the store holds an assistant Message bound to its turn and a
\* user Message received while that turn was the current one
C27_Witness ==
  /\ Len(messages) = 2
  /\ messages[1].role = "assistant" /\ messages[1].turn_id = 1
  /\ messages[2].role = "user" /\ messages[2].turn_id = NULL
  /\ state.currentTurnId = 1

IsPrefix(old, new) ==
  Len(old) <= Len(new) /\ SubSeq(new, 1, Len(old)) = old

\* C28: a model-change received while a session is active, whose insert the
\* store accepts, appends exactly one ModelChange row: for the active session,
\* with the change source, the new provider and model, and the previous
\* provider and model (null when the event has none); the ModelChange rows
\* change in no other way, so no row is updated or deleted; and no step
\* deletes a Session, Turn, ToolCall or Message row.
C28_ModelChangeAppendOnly ==
  /\ [][(nEvents' = nEvents + 1 /\ last'.ev = "model_select" /\ last'.hit)
          => /\ Len(model_changes') = Len(model_changes) + 1
             /\ LET r == model_changes'[Len(model_changes')]
                    e == last'.arg
                IN /\ r.session_id = state.sessionId
                   /\ r.source = e.source
                   /\ r.to_provider = e.provider /\ r.to_model_id = e.model
                   /\ r.from_provider = (IF e.hasPrevious THEN e.prevProvider ELSE NONE)
                   /\ r.from_model_id = (IF e.hasPrevious THEN e.prevModel ELSE NONE)]_vars
  /\ [][/\ IsPrefix(model_changes, model_changes')
        /\ model_changes' # model_changes
             => nEvents' = nEvents + 1 /\ last'.ev = "model_select"]_vars
  /\ [][/\ DOMAIN sessions \subseteq DOMAIN sessions'
        /\ Len(turns) <= Len(turns')
        /\ DOMAIN tool_calls \subseteq DOMAIN tool_calls'
        /\ IsPrefix(messages, messages')]_vars

\* C28 witness: a change without previous model and then a change that
\* carries one, both recorded for the active session
C28_Witness ==
  /\ Len(model_changes) = 2
  /\ model_changes[1].from_provider = NONE /\ model_changes[1].to_provider = "p1"
  /\ model_changes[2].from_provider = "p1" /\ model_changes[2].to_provider = "p2"
  /\ model_changes[2].session_id = state.sessionId
  /\ last.ev = "model_select" /\ last.hit

\* C29: between two consecutive turn-starts of a session at most one turn-end
\* changes the store: hist.applied counts the turn-ends whose transaction
\* changed a row since the last turn-start.
C29_OneTurnEndPerTurnStart == hist.applied <= 1

\* the Turn row of the turn the correlator is in
ActiveTurnRow ==
  TurnRowOf(turns, state.sessionId, state.currentTurnIndex, state.currentIteration)

\* C30: after every handled turn-start of an active session, including one
\* whose store write failed, state.currentTurnId is null or the id of the
\* Turn row keyed by (state.sessionId, state.currentTurnIndex,
\* state.currentIteration).
C30_ActiveTurnIdMatchesKey ==
  (last.ev = "turn_start" /\ ~last.noop)
    => (state.currentTurnId = NULL \/ state.currentTurnId = ActiveTurnRow)

\* the Turn row id refers to exists and belongs to session sid
TurnOfSession(id, sid) ==
  id \in 1..Len(turns) /\ turns[id].session_id = sid

\* C31: the turn a ToolCall row or a Message row references, when not null,
\* is a Turn row of the same session as the referencing row, in every
\* reachable store state.
C31_TurnOfSameSession ==
  /\ \A id \in DOMAIN tool_calls :
        tool_calls[id].turn_id # NULL
          => TurnOfSession(tool_calls[id].turn_id, tool_calls[id].session_id)
  /\ \A i \in 1..Len(messages) :
        messages[i].turn_id # NULL
          => TurnOfSession(messages[i].turn_id, messages[i].session_id)

\* C31 witness: after a turn of s1, session s2 was started in the same
\* process and a ToolCall row and a Message row of s2 reference a turn of s2
C31_Witness ==
  /\ \E i \in 1..Len(turns) : turns[i].session_id = "s1"
  /\ \E id \in DOMAIN tool_calls :
        /\ tool_calls[id].session_id = "s2"
        /\ tool_calls[id].turn_id # NULL
  /\ \E i \in 1..Len(messages) :
        /\ messages[i].session_id = "s2"
        /\ messages[i].turn_id # NULL

\* C32: a non-null state.sessionId implies an open store handle, in every
\* reachable state; state.sessionId is assigned only by a session_start whose
\* initDatabase returned without throwing, and it becomes null only in the
\* session_shutdown step that closes the handle.
C32_SessionIdImpliesHandle ==
  /\ [](state.sessionId # NONE => db.open)
  /\ [][(state'.sessionId # state.sessionId /\ state'.sessionId # NONE)
          => /\ last'.ev = "session_start" /\ ~last'.threw
             /\ ~hist'.initFailed
             /\ last'.id = state'.sessionId
             /\ db'.open]_vars
  /\ [][(state.sessionId # NONE /\ state'.sessionId = NONE)
          => /\ last'.ev = "session_shutdown" /\ ~last'.noop
             /\ db.open /\ ~db'.open]_vars

\* C32 witness: a session is active on an open handle after an earlier
\* session was shut down, which had closed the handle
C32_Witness ==
  /\ last.ev = "session_start"
  /\ state.sessionId = "s2" /\ db.open
  /\ "s1" \in DOMAIN sessions /\ sessions["s1"].ended_at # NULL

\* C33: every Turn row with a non-null end timestamp has a duration equal to
\* its end timestamp minus its start timestamp, and the duration is not
\* negative.
C33_TurnDuration ==
  \A i \in 1..Len(turns) :
    turns[i].ended_at # NULL
      => /\ turns[i].duration_ms = turns[i].ended_at - turns[i].started_at
         /\ turns[i].duration_ms >= 0

\* C34: while a session is active, after its successful session-start and
\* before its session-shutdown, its Session row has a null end timestamp,
\* also when the session-start resumed an id that had been shut down.
C34_ActiveSessionIsOpen ==
  (SessionActive /\ state.sessionId \in DOMAIN sessions)
    => sessions[state.sessionId].ended_at = NULL

====
